---------------------------- MODULE Spec2Model ----------------------------
(***************************************************************************)
(* RoboData Atlas (app.py): the TSV record loader (load_data), the sidebar *)
(* filter, the graph projection (add_node and the loop over filtered_data) *)
(* and the click handling of the Atlas page.                               *)
(*                                                                         *)
(* Text is modelled as a sequence of one-character strings, so that strip, *)
(* lower, startswith, join, the slug regex and the number parser are       *)
(* computed character by character as Python computes them.                *)
(***************************************************************************)
EXTENDS Integers, Sequences, FiniteSets, TLC

(***************************************************************************)
(* Bounds of the model.                                                    *)
(***************************************************************************)
\* extra fields a row of the one-row files may carry beyond the header width
MaxOverflow == 2
\* data rows of the files the Atlas session loads
MaxRecords == 2

(***************************************************************************)
(* Text helpers.                                                           *)
(***************************************************************************)
\* Python's None; a one-element sequence that is not a text of characters
None == <<"None">>

WhiteSpace == {" ", "\t", "\n", "\r"}

UpperChars == <<"A","B","C","D","E","F","G","H","I","J","K","L","M",
                "N","O","P","Q","R","S","T","U","V","W","X","Y","Z">>

LowerChars == <<"a","b","c","d","e","f","g","h","i","j","k","l","m",
                "n","o","p","q","r","s","t","u","v","w","x","y","z">>

DigitChars == <<"0","1","2","3","4","5","6","7","8","9">>

Range(s) == {s[i] : i \in DOMAIN s}

IndexOf(s, c) == CHOOSE i \in DOMAIN s : s[i] = c

\* str.lower() on one character
LowerChar(c) == IF c \in Range(UpperChars) THEN LowerChars[IndexOf(UpperChars, c)] ELSE c

\* str.lower()
Lower(s) == [i \in DOMAIN s |-> LowerChar(s[i])]

RECURSIVE LStripSet(_, _)
LStripSet(s, cs) == IF s # <<>> /\ Head(s) \in cs THEN LStripSet(Tail(s), cs) ELSE s

RECURSIVE RStripSet(_, _)
RStripSet(s, cs) ==
    IF s # <<>> /\ s[Len(s)] \in cs THEN RStripSet(SubSeq(s, 1, Len(s) - 1), cs) ELSE s

\* str.strip(chars)
StripSet(s, cs) == RStripSet(LStripSet(s, cs), cs)

\* str.strip()
Strip(s) == StripSet(s, WhiteSpace)

\* str.startswith(prefix)
StartsWith(s, p) == Len(s) >= Len(p) /\ SubSeq(s, 1, Len(p)) = p

\* str.endswith(suffix)
EndsWith(s, p) == Len(s) >= Len(p) /\ SubSeq(s, Len(s) - Len(p) + 1, Len(s)) = p

\* sep.join(parts)
RECURSIVE Join(_, _)
Join(parts, sep) ==
    IF parts = <<>> THEN <<>>
    ELSE IF Len(parts) = 1 THEN parts[1]
    ELSE parts[1] \o sep \o Join(Tail(parts), sep)

\* [part for part in parts if part.strip()]
RECURSIVE SelectNonBlank(_)
SelectNonBlank(parts) ==
    IF parts = <<>> THEN <<>>
    ELSE IF Strip(Head(parts)) # <<>> THEN <<Head(parts)>> \o SelectNonBlank(Tail(parts))
    ELSE SelectNonBlank(Tail(parts))

\* str.replace(c, "")
RECURSIVE RemoveChar(_, _)
RemoveChar(s, c) ==
    IF s = <<>> THEN <<>>
    ELSE IF Head(s) = c THEN RemoveChar(Tail(s), c)
    ELSE <<Head(s)>> \o RemoveChar(Tail(s), c)

SlugChars == Range(LowerChars) \cup Range(DigitChars)

\* _SLUG_PATTERN.sub("-", s): every maximal run of characters outside [a-z0-9]
\* becomes one hyphen
RECURSIVE SlugSub(_, _)
SlugSub(s, inRun) ==
    IF s = <<>> THEN <<>>
    ELSE IF Head(s) \in SlugChars THEN <<Head(s)>> \o SlugSub(Tail(s), FALSE)
    ELSE IF inRun THEN SlugSub(Tail(s), TRUE)
    ELSE <<"-">> \o SlugSub(Tail(s), TRUE)

_slugify(value) ==
    LET cleaned == StripSet(SlugSub(Lower(Strip(value)), FALSE), {"-"})
    IN  IF cleaned # <<>> THEN cleaned ELSE <<"d","a","t","a","s","e","t">>

(***************************************************************************)
(* _parse_int.  float(text) is modelled for texts without an exponent or   *)
(* an underscore: an optional sign, then inf / infinity / nan in any case, *)
(* or digits with at most one point and at least one digit.  int() of a    *)
(* finite float truncates toward zero, int() of nan raises ValueError      *)
(* (caught at line 34) and int() of an infinity raises OverflowError,      *)
(* which line 34 does not catch.                                           *)
(***************************************************************************)
Unsigned(t) == IF t # <<>> /\ Head(t) \in {"+", "-"} THEN Tail(t) ELSE t

IsInfText(t) == Lower(t) \in {<<"i","n","f">>, <<"i","n","f","i","n","i","t","y">>}

IsNanText(t) == Lower(t) = <<"n","a","n">>

IsDecimalText(t) ==
    /\ \A i \in DOMAIN t : t[i] \in Range(DigitChars) \cup {"."}
    /\ Cardinality({i \in DOMAIN t : t[i] = "."}) <= 1
    /\ \E i \in DOMAIN t : t[i] \in Range(DigitChars)

RECURSIVE DigitsValue(_, _)
DigitsValue(t, acc) ==
    IF t = <<>> \/ Head(t) = "." THEN acc
    ELSE DigitsValue(Tail(t), 10 * acc + (IndexOf(DigitChars, Head(t)) - 1))

_parse_int(value) ==
    IF value = None THEN [raised |-> FALSE, value |-> 0]
    ELSE LET text == Strip(value) IN
         IF text = <<>> THEN [raised |-> FALSE, value |-> 0]
         ELSE LET f == Strip(RemoveChar(text, ","))
                  u == Unsigned(f)
              IN  IF IsInfText(u) THEN [raised |-> TRUE, value |-> 0]
                  ELSE IF IsNanText(u) THEN [raised |-> FALSE, value |-> 0]
                  ELSE IF IsDecimalText(u)
                       THEN [raised |-> FALSE,
                             value |-> IF Head(f) = "-" THEN 0 - DigitsValue(u, 0)
                                       ELSE DigitsValue(u, 0)]
                  ELSE [raised |-> FALSE, value |-> 0]

(***************************************************************************)
(* load_data.  A TSV file is the sequence of rows csv.reader yields (the   *)
(* header first), each row a sequence of texts.  The locals of the loop    *)
(* body are state: row, version, record; line remembers the row as the     *)
(* reader yielded it.                                                       *)
(***************************************************************************)
VARIABLES
    exists,      \* DATASET_PATH.exists()
    reader,      \* rows the csv reader has not yielded yet
    header,      \* header row, None before it is read
    line,        \* the row last yielded by the reader, as read
    row,         \* local row of the loop body (reassigned at 58, 62, 65, 67)
    version,     \* local version of the loop body
    record,      \* local record: dict(zip(header, row)), with Version if set
    datasets,    \* the list load_data builds and returns
    pc,          \* position of load_data and of the script
    robot_images,       \* robots load_robot_images found an image file for
    last_clicked_node,  \* st.session_state["last_clicked_node"]
    page,               \* sidebar radio: "Atlas" or "All datasets"
    selected_robots,    \* sidebar multiselect
    selected_envs,      \* sidebar multiselect
    filtered_data,      \* lines 234-238
    nodes,              \* line 243
    edges,              \* line 244
    existing_nodes,     \* line 245
    d_index,            \* index in filtered_data of the loop of line 263
    return_value,       \* what agraph returned, line 382
    dataset_info,       \* line 389: no record, or the one record found
    opened              \* URL handed to window.open by this run, or None

loadVars == <<exists, reader, header, line, row, version, record, datasets>>

runVars == <<page, selected_robots, selected_envs, filtered_data, nodes, edges,
             existing_nodes, d_index, return_value, dataset_info, opened>>

appVars == <<robot_images, last_clicked_node, runVars>>

vars == <<loadVars, pc, appVars>>

\* the script has not run yet: its names are unbound
NoRun ==
    /\ page = "Atlas"
    /\ selected_robots = {}
    /\ selected_envs = {}
    /\ filtered_data = <<>>
    /\ nodes = <<>>
    /\ edges = <<>>
    /\ existing_nodes = {}
    /\ d_index = 0
    /\ return_value = None
    /\ dataset_info = <<>>
    /\ opened = None

\* lines 216-217: the fresh session state, before the script's first run
InitSession ==
    /\ last_clicked_node = None
    /\ NoRun

Unknown == <<"U","n","k","n","o","w","n">>

UR5 == <<"U","R","5">>

xArm == <<"x","A","r","m">>

\* lines 158-187: the robot names that have an image path; the model's files
\* name one of them
ROBOT_IMAGE_FILES == {UR5}

Max(S) == CHOOSE x \in S : \A y \in S : y <= x

\* any(cell.strip() for cell in row) is false
IsBlankRow(r) == \A i \in DOMAIN r : Strip(r[i]) = <<>>

\* line 56 without the startswith("v") test
HasVersionOverride_any_first(r, num_columns) == Len(r) = num_columns + 1

\* line 56: the row carries a leading version field
HasVersionOverride(r, num_columns) ==
    /\ Len(r) = num_columns + 1
    /\ StartsWith(Lower(Strip(r[1])), <<"v">>)

\* lines 55-57
VersionOf(r, num_columns) ==
    IF HasVersionOverride(r, num_columns) THEN Strip(r[1]) ELSE None

\* line 58
DropVersion(r, num_columns) ==
    IF HasVersionOverride(r, num_columns) THEN Tail(r) ELSE r

\* lines 61-65 without the "if part.strip()" of line 64
JoinOverflow_keeps_blank(r, num_columns) ==
    LET overflow == SubSeq(r, num_columns + 1, Len(r))
        kept == SubSeq(r, 1, num_columns)
        combined == Join(<<kept[num_columns]>> \o overflow, <<" ">>)
    IN  [kept EXCEPT ![num_columns] = Strip(combined)]

\* lines 61-65: overflow joined into the last column
JoinOverflow(r, num_columns) ==
    LET overflow == SubSeq(r, num_columns + 1, Len(r))
        kept == SubSeq(r, 1, num_columns)
        combined == Join(SelectNonBlank(<<kept[num_columns]>> \o overflow), <<" ">>)
    IN  [kept EXCEPT ![num_columns] = Strip(combined)]

\* lines 60-67
Reconcile(r, num_columns) ==
    IF Len(r) > num_columns THEN JoinOverflow(r, num_columns)
    ELSE IF Len(r) < num_columns
         THEN r \o [i \in 1..(num_columns - Len(r)) |-> <<>>]
    ELSE r

\* dict(zip(header, row)): a repeated column name keeps its last value
Zip(h, r) ==
    [k \in Range(h) |-> r[Max({i \in DOMAIN h : h[i] = k})]]

\* lines 70-71
WithVersion(rec, v) ==
    IF v # None /\ v # <<>>
    THEN [k \in DOMAIN rec \cup {"Version"} |-> IF k = "Version" THEN v ELSE rec[k]]
    ELSE rec

\* lines 55-71 for one row as read
RecordOf(h, r) ==
    WithVersion(Zip(h, Reconcile(DropVersion(r, Len(h)), Len(h))), VersionOf(r, Len(h)))

\* dict.get(key, default)
Get(rec, key, default) == IF key \in DOMAIN rec THEN rec[key] ELSE default

\* x or default
OrElse(x, default) == IF x # <<>> THEN x ELSE default

\* lines 77-79
DatasetId(rec) ==
    OrElse(Strip(Get(rec, "Registered Dataset Name", <<>>)),
           _slugify(Strip(Get(rec, "Dataset", <<>>))))

\* lines 85-87, in evaluation order
CameraCounts(rec) ==
    <<_parse_int(Get(rec, "# RGB Cams", None)),
      _parse_int(Get(rec, "# Depth Cams", None)),
      _parse_int(Get(rec, "# Wrist Cams", None))>>

\* an exception leaves load_data from lines 85-87
CountsRaise(rec) == \E i \in 1..3 : CameraCounts(rec)[i].raised

\* list(dict.fromkeys(xs))
RECURSIVE Dedup(_)
Dedup(xs) ==
    IF xs = <<>> THEN <<>>
    ELSE LET front == Dedup(SubSeq(xs, 1, Len(xs) - 1))
         IN  IF xs[Len(xs)] \in Range(front) THEN front ELSE Append(front, xs[Len(xs)])

IsNoneOrNo(t) == Lower(t) \in {<<"n","o","n","e">>, <<"n","o">>}

\* lines 89-99
Sensors(rec) ==
    LET c == CameraCounts(rec)
        lang == Strip(Get(rec, "Language Annotations", <<>>))
    IN  Dedup((IF c[1].value > 0 THEN <<"RGB">> ELSE <<>>)
              \o (IF c[2].value > 0 THEN <<"Depth">> ELSE <<>>)
              \o (IF Lower(Strip(Get(rec, "Has Proprioception?", <<>>))) = <<"y","e","s">>
                  THEN <<"Proprioception">> ELSE <<>>)
              \o (IF lang # <<>> /\ ~IsNoneOrNo(lang) THEN <<"Language">> ELSE <<>>))

\* lines 101-106
Viewpoints(rec) ==
    LET c == CameraCounts(rec)
    IN  Dedup((IF c[3].value > 0 THEN <<"Wrist">> ELSE <<>>)
              \o (IF c[1].value > 0 \/ c[2].value > 0 THEN <<"External">> ELSE <<>>))

\* lines 108-114
Frequency(rec) ==
    LET frequency_raw == Strip(Get(rec, "Control Frequency", <<>>))
    IN  IF frequency_raw # <<>> /\ ~EndsWith(Lower(frequency_raw), <<"h","z">>)
        THEN frequency_raw \o <<" ","H","z">>
        ELSE IF frequency_raw # <<>> THEN frequency_raw
        ELSE Unknown

\* lines 123, 132, 137 without the trailing or "Unknown"
AttributeOf_no_default(rec, column) == Strip(Get(rec, column, Unknown))

\* "Unknown" default of lines 123, 124, 132, 137
AttributeOf(rec, column) == OrElse(Strip(Get(rec, column, Unknown)), Unknown)

\* lines 116-154; the free-text passthrough fields (description, morphology,
\* domain, stats, citation, latex_reference) are stripped copies of their
\* columns and are left out
MakeDataset(rec) ==
    [id |-> DatasetId(rec),
     name |-> Strip(Get(rec, "Dataset", <<>>)),
     url |-> OrElse(Strip(Get(rec, "Dataset URL", <<>>)), None),
     hardware |-> [robot |-> AttributeOf(rec, "Robot"),
                   end_effector |-> AttributeOf(rec, "Gripper")],
     modality |-> [sensors |-> Sensors(rec), viewpoints |-> Viewpoints(rec)],
     task_env |-> [environment |-> AttributeOf(rec, "Scene Type"),
                   language_labels |->
                       LET lang == Strip(Get(rec, "Language Annotations", <<>>))
                       IN  lang # <<>> /\ ~IsNoneOrNo(lang)],
     engineering |-> [format |-> AttributeOf(rec, "Action Space"),
                      frequency |-> Frequency(rec)],
     registered_name |-> Strip(Get(rec, "Registered Dataset Name", <<>>)),
     version |-> Get(rec, "Version", None)]

\* the function's locals die when it returns or raises
NoLocals ==
    /\ line' = None
    /\ row' = None
    /\ version' = None
    /\ record' = None

\* positions inside the loop of line 51: the header was just read ("loop"), or
\* the body just left through line 53, line 75 or line 154
InLoop == {"loop", "skipped", "dropped", "appended"}

\* next(reader, None)
NextOrNone(rd) == IF rd = <<>> THEN None ELSE Head(rd)

\* lines 41-42: no file
MissingFile ==
    /\ pc = "start"
    /\ ~exists
    /\ datasets' = <<>>
    /\ pc' = "loaded"
    /\ UNCHANGED <<exists, reader, header, line, row, version, record>>
    /\ UNCHANGED appVars

\* lines 46-48: no header row, or an empty one
NoHeader ==
    /\ pc = "start"
    /\ exists
    /\ NextOrNone(reader) \in {None, <<>>}
    /\ reader' = <<>>
    /\ datasets' = <<>>
    /\ pc' = "loaded"
    /\ UNCHANGED <<exists, header, line, row, version, record>>
    /\ UNCHANGED appVars

\* lines 46-49
ReadHeader ==
    /\ pc = "start"
    /\ exists
    /\ NextOrNone(reader) \notin {None, <<>>}
    /\ header' = Head(reader)
    /\ reader' = Tail(reader)
    /\ datasets' = <<>>
    /\ pc' = "loop"
    /\ UNCHANGED <<exists, line, row, version, record>>
    /\ UNCHANGED appVars

\* lines 51-53: a blank row is skipped
SkipBlankRow ==
    /\ pc \in InLoop
    /\ reader # <<>>
    /\ IsBlankRow(Head(reader))
    /\ line' = Head(reader)
    /\ row' = Head(reader)
    /\ reader' = Tail(reader)
    /\ pc' = "skipped"
    /\ UNCHANGED <<exists, header, version, record, datasets>>
    /\ UNCHANGED appVars

\* the assignments of lines 51-71 for the row the reader yields
ZipRow ==
    /\ line' = Head(reader)
    /\ reader' = Tail(reader)
    /\ version' = VersionOf(Head(reader), Len(header))
    /\ row' = Reconcile(DropVersion(Head(reader), Len(header)), Len(header))
    /\ record' = RecordOf(header, Head(reader))

\* lines 73-75: a row without a dataset name is dropped
DropUnnamedRow ==
    /\ pc \in InLoop
    /\ reader # <<>>
    /\ ~IsBlankRow(Head(reader))
    /\ Strip(Get(RecordOf(header, Head(reader)), "Dataset", <<>>)) = <<>>
    /\ ZipRow
    /\ pc' = "dropped"
    /\ UNCHANGED <<exists, header, datasets>>
    /\ UNCHANGED appVars

\* lines 85-87: int(float("inf")) raises OverflowError out of load_data
RaiseOverflow ==
    /\ pc \in InLoop
    /\ reader # <<>>
    /\ ~IsBlankRow(Head(reader))
    /\ Strip(Get(RecordOf(header, Head(reader)), "Dataset", <<>>)) # <<>>
    /\ CountsRaise(RecordOf(header, Head(reader)))
    /\ ZipRow
    /\ pc' = "raised"
    /\ UNCHANGED <<exists, header, datasets>>
    /\ UNCHANGED appVars

\* lines 77-154: the row becomes a record of datasets
AppendRecord ==
    /\ pc \in InLoop
    /\ reader # <<>>
    /\ ~IsBlankRow(Head(reader))
    /\ Strip(Get(RecordOf(header, Head(reader)), "Dataset", <<>>)) # <<>>
    /\ ~CountsRaise(RecordOf(header, Head(reader)))
    /\ ZipRow
    /\ datasets' = Append(datasets, MakeDataset(RecordOf(header, Head(reader))))
    /\ pc' = "appended"
    /\ UNCHANGED <<exists, header>>
    /\ UNCHANGED appVars

\* line 156: the reader is exhausted
ReturnDatasets ==
    /\ pc \in InLoop
    /\ reader = <<>>
    /\ pc' = "loaded"
    /\ NoLocals
    /\ UNCHANGED <<exists, reader, header, datasets>>
    /\ UNCHANGED appVars

NextLoad ==
    \/ MissingFile
    \/ NoHeader
    \/ ReadHeader
    \/ SkipBlankRow
    \/ DropUnnamedRow
    \/ RaiseOverflow
    \/ AppendRecord
    \/ ReturnDatasets

(***************************************************************************)
(* Input files of the loader specification: a header of one to three       *)
(* columns and at most one data row, of up to MaxOverflow fields more than *)
(* the header has.                                                         *)
(***************************************************************************)
FieldValues ==
    { <<>>, <<" ">>, <<"a">>, <<"V","1"," ">>, <<"i","n","f">>,
      <<"2",",","5">>, <<"1",".","9">> }

RowHeaders ==
    { <<"Dataset">>,
      <<"Dataset", "Robot", "Scene Type">>,
      <<"Dataset", "Robot">>,
      <<"Dataset", "Scene Type">>,
      <<"Action Space", "Dataset">>,
      <<"Dataset", "# RGB Cams">>,
      <<"Dataset", "# Wrist Cams">>,
      <<"Registered Dataset Name", "Dataset">> }

\* a file of RowHeaders: empty, an empty header line, a header alone, or a
\* header and one row
OneRowFile ==
    \/ reader \in {<<>>, <<<<>>>>}
    \/ \E h \in RowHeaders : reader = <<h>>
    \/ \E h \in RowHeaders : \E k \in 0..(Len(h) + MaxOverflow) :
          \E r \in [1..k -> FieldValues] : reader = <<h, r>>

\* load_data is entered: none of its locals is bound
LoadStart ==
    /\ header = None
    /\ line = None
    /\ row = None
    /\ version = None
    /\ record = None
    /\ datasets = <<>>
    /\ pc = "start"

InitRow ==
    /\ exists \in BOOLEAN
    /\ IF exists THEN OneRowFile ELSE reader = <<>>
    /\ LoadStart
    /\ robot_images = {}
    /\ InitSession

SpecRow == InitRow /\ [][NextLoad]_vars

(***************************************************************************)
(* The script body after load_data: sidebar filter, graph projection,      *)
(* click handling.  Streamlit runs the script from the top on every        *)
(* interaction; only st.session_state and the caches survive a run.        *)
(***************************************************************************)
\* line 215
data == datasets

\* line 227 (the sort order of the options plays no part in the filter)
all_robots == {data[k].hardware.robot : k \in DOMAIN data}

\* line 228
all_envs == {data[k].task_env.environment : k \in DOMAIN data}

\* lines 234-238 without the environment test of line 237
RECURSIVE Filter_ignores_envs(_, _, _)
Filter_ignores_envs(ds, robots, envs) ==
    IF ds = <<>> THEN <<>>
    ELSE IF Head(ds).hardware.robot \in robots
         THEN <<Head(ds)>> \o Filter_ignores_envs(Tail(ds), robots, envs)
    ELSE Filter_ignores_envs(Tail(ds), robots, envs)

\* lines 234-238
RECURSIVE Filter(_, _, _)
Filter(ds, robots, envs) ==
    IF ds = <<>> THEN <<>>
    ELSE IF Head(ds).hardware.robot \in robots /\ Head(ds).task_env.environment \in envs
         THEN <<Head(ds)>> \o Filter(Tail(ds), robots, envs)
    ELSE Filter(Tail(ds), robots, envs)

\* lines 220-240: the widgets report the page and the selections (subsets of
\* the options offered), and the list is filtered.  The run has not called
\* agraph or handled a click yet.  nodes, edges and existing_nodes still hold
\* what the run before left (the graph on screen) until lines 243-245 assign
\* them: whether anything of it carries over is for those lines to decide
Rerun ==
    /\ pc \in {"loaded", "idle"}
    /\ \E p \in {"Atlas", "All datasets"}, robots \in SUBSET all_robots,
          envs \in SUBSET all_envs :
          /\ page' = p
          /\ selected_robots' = robots
          /\ selected_envs' = envs
          /\ filtered_data' = Filter(data, robots, envs)
    /\ return_value' = None
    /\ dataset_info' = <<>>
    /\ opened' = None
    /\ pc' = "page"
    /\ UNCHANGED <<loadVars, robot_images, last_clicked_node, nodes, edges,
                   existing_nodes, d_index>>

\* lines 465-510: the table page shows filtered_data and handles no click
ShowTable ==
    /\ pc = "page"
    /\ page # "Atlas"
    /\ pc' = "idle"
    /\ UNCHANGED <<loadVars, appVars>>

\* lines 242-245 without existing_nodes = set() of line 245
StartAtlas_keeps_existing ==
    /\ pc = "page"
    /\ page = "Atlas"
    /\ nodes' = <<>>
    /\ edges' = <<>>
    /\ d_index' = 1
    /\ pc' = "dataset_node"
    /\ UNCHANGED <<loadVars, robot_images, last_clicked_node, page, selected_robots,
                   selected_envs, filtered_data, return_value, dataset_info, opened,
                   existing_nodes>>

\* lines 242-245
StartAtlas ==
    /\ pc = "page"
    /\ page = "Atlas"
    /\ nodes' = <<>>
    /\ edges' = <<>>
    /\ existing_nodes' = {}
    /\ d_index' = 1
    /\ pc' = "dataset_node"
    /\ UNCHANGED <<loadVars, robot_images, last_clicked_node, page, selected_robots,
                   selected_envs, filtered_data, return_value, dataset_info, opened>>

RobotPrefix == <<"r","o","b","o","t","_">>

ScenePrefix == <<"s","c","e","n","e","_">>

ActionPrefix == <<"a","c","t","i","o","n","_">>

\* Node(...) of lines 251-259; the tooltip text and the image bytes are left out
Node(id, label, color, shape, size) ==
    [id |-> id, label |-> label, color |-> color, shape |-> shape, size |-> size]

\* Edge(...) of lines 305, 317, 329; the tooltip text is left out
Edge(source, target, color) == [source |-> source, target |-> target, color |-> color]

\* lines 247-261: nodes after add_node(node)
add_node_nodes(ns, existing, node) ==
    IF node.id \notin existing THEN Append(ns, node) ELSE ns

\* lines 247-261 without existing_nodes.add(id) of line 261
add_node_existing_forgets(existing, node) == existing

\* lines 247-261: existing_nodes after add_node(node)
add_node_existing(existing, node) ==
    IF node.id \notin existing THEN existing \cup {node.id} ELSE existing

add_node(node) ==
    /\ nodes' = add_node_nodes(nodes, existing_nodes, node)
    /\ existing_nodes' = add_node_existing(existing_nodes, node)

\* the record of the current iteration of line 263
d == filtered_data[d_index]

\* line 284
robot_id(rec) == RobotPrefix \o rec.hardware.robot

\* line 314
scene_id(rec) == ScenePrefix \o rec.task_env.environment

\* line 326
action_id(rec) == ActionPrefix \o rec.engineering.format

\* lines 286-303: the image-bearing variant or the plain one
RobotNode(rec, images) ==
    IF rec.hardware.robot \in images
    THEN Node(robot_id(rec), rec.hardware.robot, "#FFBB28", "circularImage", 36)
    ELSE Node(robot_id(rec), rec.hardware.robot, "#FFBB28", "dot", 18)

projectionFrame == <<loadVars, robot_images, last_clicked_node, page, selected_robots,
                     selected_envs, filtered_data, return_value, dataset_info, opened>>

\* lines 263-282
AddDatasetNode ==
    /\ pc = "dataset_node"
    /\ d_index <= Len(filtered_data)
    /\ add_node(Node(d.id, d.name, "#00C49F", "dot", 12))
    /\ pc' = "robot_node"
    /\ UNCHANGED <<projectionFrame, edges, d_index>>

\* lines 284-303
AddRobotNode ==
    /\ pc = "robot_node"
    /\ add_node(RobotNode(d, robot_images))
    /\ pc' = "robot_edge"
    /\ UNCHANGED <<projectionFrame, edges, d_index>>

\* lines 304-312
AddRobotEdge ==
    /\ pc = "robot_edge"
    /\ edges' = Append(edges, Edge(robot_id(d), d.id, "#FFBB28"))
    /\ pc' = "scene_node"
    /\ UNCHANGED <<projectionFrame, nodes, existing_nodes, d_index>>

\* lines 314-315
AddSceneNode ==
    /\ pc = "scene_node"
    /\ add_node(Node(scene_id(d), <<>>, "#FF8042", "dot", 10))
    /\ pc' = "scene_edge"
    /\ UNCHANGED <<projectionFrame, edges, d_index>>

\* lines 316-324
AddSceneEdge ==
    /\ pc = "scene_edge"
    /\ edges' = Append(edges, Edge(d.id, scene_id(d), "#FF8042"))
    /\ pc' = "action_node"
    /\ UNCHANGED <<projectionFrame, nodes, existing_nodes, d_index>>

\* lines 326-327
AddActionNode ==
    /\ pc = "action_node"
    /\ add_node(Node(action_id(d), <<>>, "#8884d8", "dot", 10))
    /\ pc' = "action_edge"
    /\ UNCHANGED <<projectionFrame, edges, d_index>>

\* lines 328-336, and the loop moves to the next record
AddActionEdge ==
    /\ pc = "action_edge"
    /\ edges' = Append(edges, Edge(d.id, action_id(d), "#8884d8"))
    /\ d_index' = d_index + 1
    /\ pc' = "dataset_node"
    /\ UNCHANGED <<projectionFrame, nodes, existing_nodes>>

\* line 263: filtered_data is exhausted; lines 338-380 draw the page
EndProjection ==
    /\ pc = "dataset_node"
    /\ d_index > Len(filtered_data)
    /\ pc' = "agraph"
    /\ UNCHANGED <<loadVars, appVars>>

\* line 382 returning nothing: no node was clicked, line 384 ends the run
NoClick ==
    /\ pc = "agraph"
    /\ return_value' = None
    /\ pc' = "idle"
    /\ UNCHANGED <<loadVars, robot_images, last_clicked_node, page, selected_robots,
                   selected_envs, filtered_data, nodes, edges, existing_nodes, d_index,
                   dataset_info, opened>>

\* line 389: next((item for item in data if item["id"] == id), None)
Lookup(ds, id) ==
    IF \E k \in DOMAIN ds : ds[k].id = id
    THEN <<ds[CHOOSE k \in DOMAIN ds :
                  ds[k].id = id /\ \A j \in 1..(k - 1) : ds[j].id # id]>>
    ELSE <<>>

\* line 386 taking every reported click for a new one
is_new_click_always(clicked_node_id, last) == TRUE

\* line 386
is_new_click(clicked_node_id, last) == clicked_node_id # last

\* lines 391-398: the URL window.open is called with, None when it is not called
OpenedUrl(info, new_click) ==
    IF info # <<>> /\ info[1].url # None /\ new_click THEN info[1].url ELSE None

\* lines 382-464: agraph reports the id of a node of the graph it was given
HandleClick ==
    /\ pc = "agraph"
    /\ \E clicked_node_id \in {nodes[k].id : k \in DOMAIN nodes} :
          /\ return_value' = clicked_node_id
          /\ last_clicked_node' = clicked_node_id
          /\ dataset_info' = Lookup(data, clicked_node_id)
          /\ opened' = OpenedUrl(Lookup(data, clicked_node_id),
                                 is_new_click(clicked_node_id, last_clicked_node))
    /\ pc' = "idle"
    /\ UNCHANGED <<loadVars, robot_images, page, selected_robots, selected_envs,
                   filtered_data, nodes, edges, existing_nodes, d_index>>

(***************************************************************************)
(* Input files of the session: six columns and at most MaxRecords data     *)
(* rows.  Two rows share the dataset name (and so the slug), one row is    *)
(* registered under a name that starts like a robot node id, and there is  *)
(* an empty line, a row without a name and a row with an infinite count.   *)
(***************************************************************************)
AppHeader ==
    <<"Dataset", "Registered Dataset Name", "Dataset URL", "Robot", "Scene Type",
      "# RGB Cams">>

Kitchen == <<"K">>

Lab == <<"L">>

AppRows ==
    { << <<"a">>, <<>>, <<"h">>, UR5, Kitchen, <<"1">> >>,
      << <<"b">>, <<>>, <<>>, UR5, Lab, <<>> >>,
      << <<"a">>, <<>>, <<"g">>, xArm, Kitchen, <<>> >>,
      << <<"b">>, RobotPrefix \o UR5, <<"h">>, xArm, Kitchen, <<>> >>,
      <<>>,
      << <<>>, <<>>, <<>>, UR5, Kitchen, <<>> >>,
      << <<"a">>, <<>>, <<>>, UR5, Kitchen, <<"i","n","f">> >> }

AppFiles ==
    {<<>>} \cup {<<AppHeader>> \o rows :
                    rows \in UNION {[1..k -> AppRows] : k \in 0..MaxRecords}}

Init ==
    /\ exists \in BOOLEAN
    /\ reader \in (IF exists THEN AppFiles ELSE {<<>>})
    /\ LoadStart
    /\ robot_images \in SUBSET ROBOT_IMAGE_FILES
    /\ InitSession

Next ==
    \/ MissingFile
    \/ NoHeader
    \/ ReadHeader
    \/ SkipBlankRow
    \/ DropUnnamedRow
    \/ RaiseOverflow
    \/ AppendRecord
    \/ ReturnDatasets
    \/ Rerun
    \/ ShowTable
    \/ StartAtlas
    \/ AddDatasetNode
    \/ AddRobotNode
    \/ AddRobotEdge
    \/ AddSceneNode
    \/ AddSceneEdge
    \/ AddActionNode
    \/ AddActionEdge
    \/ EndProjection
    \/ NoClick
    \/ HandleClick

Spec == Init /\ [][Next]_vars

(***************************************************************************)
(* Properties.                                                             *)
(***************************************************************************)
\* positions at which the current run has computed filtered_data
Filtered ==
    pc \in {"page", "dataset_node", "robot_node", "robot_edge", "scene_node",
            "scene_edge", "action_node", "action_edge", "agraph", "idle"}

\* indexes of the records of data the selection keeps
KeptIndexes ==
    {k \in DOMAIN data : /\ data[k].hardware.robot \in selected_robots
                         /\ data[k].task_env.environment \in selected_envs}

\* the n-th smallest kept index
NthKept(n) == CHOOSE k \in KeptIndexes : Cardinality({j \in KeptIndexes : j <= k}) = n

\* C1: the filtered list is exactly the records whose robot and environment are
\* both selected, in their original order; with every robot and environment
\* selected it is the loaded list
C1_FilterExact ==
    Filtered =>
        /\ Len(filtered_data) = Cardinality(KeptIndexes)
        /\ \A n \in DOMAIN filtered_data : filtered_data[n] = data[NthKept(n)]
        /\ (selected_robots = all_robots /\ selected_envs = all_envs
                => filtered_data = data)

\* a selection that drops the first of two loaded records and keeps the second
C1_Witness ==
    /\ Filtered
    /\ Len(data) = 2
    /\ filtered_data = <<data[2]>>

\* records of the filtered list that name robot r
RecordsOfRobot(r) == {k \in DOMAIN filtered_data : filtered_data[k].hardware.robot = r}

\* C2: after a projection no two nodes share an id, and for every robot r of the
\* filtered list there is exactly one Robot node with id "robot_" + r and
\* exactly as many robot edges leave that id as there are records naming r
C2_RobotNodeOnce ==
    pc = "agraph" =>
        /\ \A j, k \in DOMAIN nodes : j # k => nodes[j].id # nodes[k].id
        /\ \A r \in {filtered_data[k].hardware.robot : k \in DOMAIN filtered_data} :
              /\ Cardinality({k \in DOMAIN nodes :
                                 /\ nodes[k].id = RobotPrefix \o r
                                 /\ nodes[k].color = "#FFBB28"
                                 /\ nodes[k].label = r}) = 1
              /\ Cardinality({k \in DOMAIN edges :
                                 /\ edges[k].source = RobotPrefix \o r
                                 /\ edges[k].color = "#FFBB28"})
                    = Cardinality(RecordsOfRobot(r))

\* the run has handled a click on a node of the graph
Clicked == pc = "idle" /\ return_value # None

\* the node of the drawn graph that was clicked
ClickedNode == nodes[CHOOSE k \in DOMAIN nodes : nodes[k].id = return_value]

\* C3: a click on the id of a record of the unfiltered list shows a record with
\* that id whatever the filter is, and a click on an attribute node (robot,
\* scene or action space) finds no record and opens nothing
C3_ClickLookup ==
    Clicked =>
        /\ (\E k \in DOMAIN data : data[k].id = return_value)
              => (dataset_info # <<>> /\ dataset_info[1].id = return_value)
        /\ ClickedNode.color # "#00C49F" => (dataset_info = <<>> /\ opened = None)

\* the step is the handling of a click reported by agraph
ClickStep == pc = "agraph" /\ pc' = "idle" /\ return_value' # None

\* C4: a click event that repeats the id of the click event before it opens
\* nothing; a click event with another id opens the URL of the record shown, if
\* it has one, and nothing else is ever opened; last_clicked_node is the id of
\* the latest click event across the runs of the session
C4_NewClickOnce ==
    [][/\ ClickStep =>
            /\ last_clicked_node' = return_value'
            /\ return_value' = last_clicked_node => opened' = None
            /\ return_value' # last_clicked_node =>
                  opened' = IF dataset_info' # <<>> THEN dataset_info'[1].url ELSE None
       /\ ~ClickStep =>
            /\ last_clicked_node' = last_clicked_node
            /\ opened' = None \/ opened' = opened]_vars

\* the same dataset node, which has a URL, was reported twice in a row: the
\* second run shows the record and opens nothing
C4_Witness ==
    /\ Clicked
    /\ dataset_info # <<>>
    /\ dataset_info[1].url # None
    /\ opened = None

\* C5: the list load_data builds never holds two records with the same id
C5_UniqueIds ==
    \A j, k \in DOMAIN datasets : j # k => datasets[j].id # datasets[k].id

\* the three attribute columns and the record fields they fill
AttributeColumns == {"Robot", "Scene Type", "Action Space"}

AttributeField(rec, column) ==
    CASE column = "Robot" -> rec.hardware.robot
      [] column = "Scene Type" -> rec.task_env.environment
      [] column = "Action Space" -> rec.engineering.format

\* C6: every record has a robot, an environment and a format that are neither
\* None nor blank, and each is "Unknown" when the row's value for its column is
\* blank or the header has no such column
C6_AttributesDefault ==
    /\ \A k \in DOMAIN datasets : \A c \in AttributeColumns :
          /\ AttributeField(datasets[k], c) # None
          /\ Strip(AttributeField(datasets[k], c)) # <<>>
    /\ pc = "appended" =>
          \A c \in AttributeColumns :
              (c \notin DOMAIN record \/ Strip(record[c]) = <<>>)
                  => AttributeField(datasets[Len(datasets)], c) = Unknown

\* a short row under a header with a Robot column became a record
C6_Witness ==
    /\ pc = "appended"
    /\ "Robot" \in DOMAIN record
    /\ Len(line) < Len(header)
    /\ datasets[Len(datasets)].hardware.robot = Unknown
    /\ datasets[Len(datasets)].engineering.format = Unknown

\* the loop body has zipped the row the reader yielded
Zipped == pc \in {"dropped", "appended", "raised"}

\* C7: the leading field is a version override exactly when the row has one
\* field more than the header and that field, trimmed and lower-cased, starts
\* with "v"; then the version is the trimmed field and the other fields are
\* zipped with the header as they are; otherwise no field leaves the front
C7_VersionOverride ==
    Zipped =>
        LET n == Len(header) IN
        IF Len(line) = n + 1 /\ StartsWith(Lower(Strip(line[1])), <<"v">>)
        THEN /\ version = Strip(line[1])
             /\ record["Version"] = Strip(line[1])
             /\ \A c \in 1..n : record[header[c]] = line[c + 1]
             /\ pc = "appended" => datasets[Len(datasets)].version = Strip(line[1])
        ELSE /\ version = None
             /\ "Version" \notin DOMAIN record
             /\ \A c \in 1..n :
                   (c < n \/ Len(line) <= n)
                       => record[header[c]] = (IF c <= Len(line) THEN line[c] ELSE <<>>)

\* a row with a leading version field became a record
C7_Witness ==
    /\ pc = "appended"
    /\ Len(line) = Len(header) + 1
    /\ version # None
    /\ datasets[Len(datasets)].version = version

\* the row after version handling
AfterVersion == IF version # None THEN Tail(line) ELSE line

\* the last header column's value and the overflow fields
LastAndOverflow == SubSeq(AfterVersion, Len(header), Len(AfterVersion))

IsNonBlank(t) == Strip(t) # <<>>

\* C8 as stated: a row with more fields than the header keeps its first N-1
\* fields and its last column is the last column's value joined with all
\* overflow fields by single spaces, trimmed
C8_JoinAll ==
    (Zipped /\ Len(AfterVersion) > Len(header)) =>
        /\ \A c \in 1..(Len(header) - 1) : row[c] = AfterVersion[c]
        /\ row[Len(header)] = Strip(Join(LastAndOverflow, <<" ">>))

\* C8 as amended: the parts that are blank (empty or only whitespace) are left
\* out of the join
C8_JoinNonBlank ==
    (Zipped /\ Len(AfterVersion) > Len(header)) =>
        /\ Len(row) = Len(header)
        /\ \A c \in 1..(Len(header) - 1) : row[c] = AfterVersion[c]
        /\ row[Len(header)] = Strip(Join(SelectSeq(LastAndOverflow, IsNonBlank), <<" ">>))
        /\ record[header[Len(header)]] = row[Len(header)]

\* two free-text fields after a blank overflow field are joined by one space
C8_Witness ==
    /\ pc = "appended"
    /\ Len(line) = Len(header) + 2
    /\ \E k \in DOMAIN LastAndOverflow : ~IsNonBlank(LastAndOverflow[k])
    /\ row[Len(header)] = <<"a", " ", "a">>

\* C9: load_data never leaves through an exception of _parse_int
C9_NeverRaises == pc # "raised"

\* the graph projection is under way
Projecting ==
    pc \in {"dataset_node", "robot_node", "robot_edge", "scene_node", "scene_edge",
            "action_node", "action_edge", "agraph"}

\* C10: at every point of a projection both ends of every edge emitted so far
\* are ids of the emitted-id set, and that set is the ids of the emitted nodes
C10_EdgeEndsExist ==
    Projecting =>
        /\ \A k \in DOMAIN edges :
              edges[k].source \in existing_nodes /\ edges[k].target \in existing_nodes
        /\ existing_nodes = {nodes[k].id : k \in DOMAIN nodes}

\* the second record's last edge is about to be appended, its nodes being there
C10_Witness ==
    /\ pc = "action_edge"
    /\ d_index = 2
    /\ Len(edges) = 5
    /\ action_id(d) \in existing_nodes

\* the run has drawn the graph of the Atlas page
GraphShown == pc = "agraph" \/ (pc = "idle" /\ page = "Atlas")

\* the nodes the loop asks for, record by record, whether emitted or not
RECURSIVE NodesAsked(_, _)
NodesAsked(ds, images) ==
    IF ds = <<>> THEN <<>>
    ELSE << Node(Head(ds).id, Head(ds).name, "#00C49F", "dot", 12),
            RobotNode(Head(ds), images),
            Node(scene_id(Head(ds)), <<>>, "#FF8042", "dot", 10),
            Node(action_id(Head(ds)), <<>>, "#8884d8", "dot", 10) >>
         \o NodesAsked(Tail(ds), images)

\* of a node sequence, the first node of every id, in order
FirstOfEachId(ns) ==
    LET keep == {k \in DOMAIN ns : \A j \in 1..(k - 1) : ns[j].id # ns[k].id}
        nth(n) == CHOOSE k \in keep : Cardinality({j \in keep : j <= k}) = n
    IN  [n \in 1..Cardinality(keep) |-> ns[nth(n)]]

\* the three edges of every record, in order
RECURSIVE EdgesAsked(_)
EdgesAsked(ds) ==
    IF ds = <<>> THEN <<>>
    ELSE << Edge(robot_id(Head(ds)), Head(ds).id, "#FFBB28"),
            Edge(Head(ds).id, scene_id(Head(ds)), "#FF8042"),
            Edge(Head(ds).id, action_id(Head(ds)), "#8884d8") >>
         \o EdgesAsked(Tail(ds))

\* C11: whatever runs and selections came before, the graph shown is the
\* projection, started from no emitted id, of the records the current selection
\* keeps: it is a function of the loaded records, the image map and the
\* current selection alone
C11_GraphOfSelection ==
    GraphShown =>
        LET kept == [n \in 1..Cardinality(KeptIndexes) |-> data[NthKept(n)]]
            shown == FirstOfEachId(NodesAsked(kept, robot_images))
        IN  /\ nodes = shown
            /\ edges = EdgesAsked(kept)
            /\ existing_nodes = {shown[k].id : k \in DOMAIN shown}

\* a graph is shown that lacks the node clicked in an earlier run, so the
\* selection has changed since then, and that earlier graph had other nodes
C11_Witness ==
    /\ pc = "agraph"
    /\ nodes # <<>>
    /\ last_clicked_node # None
    /\ last_clicked_node \notin existing_nodes

=============================================================================
